---- MODULE Spec2Model ----
(***************************************************************************)
(* Face detection orchestration of weekly-picture-selector.               *)
(*                                                                         *)
(* The host side (src/main/faceDetection.ts) drives one forked worker      *)
(* process (src/main/faceWorker.ts) over an IPC message channel and        *)
(* stores the detected faces through src/main/database.ts.                 *)
(*                                                                         *)
(* One action of the model is one macrotask of the host's or the worker's  *)
(* event loop: an IPC handler invocation, the delivery of one worker       *)
(* message to every listener, a timer callback, a process exit event.      *)
(* Promise continuations (microtasks) run inside the action that settles   *)
(* the promise.  Time is abstract: a timer may fire at any moment after    *)
(* it was armed.                                                           *)
(***************************************************************************)
EXTENDS Integers, Sequences, FiniteSets, TLC

\* ------------------------------------------------------------------ bounds
NumPhotos  == 2    \* photo ids 1..NumPhotos
MaxLen     == 2    \* longest photo list handed to detectFacesInPhotos
MaxLoads   == 2    \* loadModels invocations (each forks at most one worker)
MaxBatches == 2    \* detectFacesInPhotos invocations
MaxDirect  == 1    \* detect-faces-in-photo invocations
MaxInvocations == 3  \* IPC invocations of the three kinds together
MaxFaces   == 1    \* most faces the detector reports for one photo
MaxClusterFaces == 3  \* longest face list handed to clusterFaces
MaxCoord   == 2    \* descriptor coordinates are 0..MaxCoord
MaxThreshold == 2  \* distance thresholds are 0..MaxThreshold
MaxPeople  == 2    \* people rows ever inserted
FacesPerPhoto == 2 \* faces of the first photo in the people store
MaxIds     == 2    \* longest personIds list handed to getPhotosByPeople
MaxScanned == 1    \* photos a rescan finds
MaxDetected == 1   \* faces inserted by detection runs on the people store
MaxYears   == 2    \* years of the photos of an export
MaxWeek    == 2    \* week numbers of the photos of an export
MaxFavorites == 1  \* favorites of a week

Photos  == 1..NumPhotos
LoadIds == 1..MaxLoads
Workers == LoadIds            \* the worker forked by loadModels call l is worker l
Callers == {"batch", "direct"}

VARIABLES
  worker,        \* faceDetection.ts `worker`: 0 is null, else the forked worker
  modelsLoaded,  \* faceDetection.ts `modelsLoaded`
  proc,          \* per worker process: "unforked" | "alive" | "exited"
  wModels,       \* faceWorker.ts `modelsLoaded`, per worker process
  wReqs,         \* requests a worker process is handling (awaiting inside its handler)
  chan,          \* messages a worker sent that the host has not dispatched yet
  listeners,     \* 'message' listeners on each ChildProcess, in registration order
  loads,         \* state of each loadModels invocation
  calls,         \* the detectFacesInPhoto promise of the batch and of the direct caller
  batch,         \* the detectFacesInPhotos invocation
  faces,         \* rows of the faces table
  nextFaceId,    \* AUTOINCREMENT of faces.id
  settled,       \* history: how the last promise of each caller was settled
  directCalls,   \* number of detect-faces-in-photo invocations so far
  cl,            \* clusterFaces: its arguments and results for two input orders
  people,        \* rows of the people table and its AUTOINCREMENT sequence
  photos,        \* rows of the photos table
  ui,            \* PeopleTab: the label operation; history: the last store call
  ex             \* the export under study: weeks, config, preview and result

vars == <<worker, modelsLoaded, proc, wModels, wReqs, chan, listeners, loads,
          calls, batch, faces, nextFaceId, settled, directCalls, cl, people, photos, ui,
          ex>>

\* ---------------------------------------------------------------- messages
ReadyMsg == [type |-> "ready", photoId |-> 0, faces |-> 0, rid |-> <<>>, of |-> "-"]
LoadResp(r) == [type |-> "load-models-response", photoId |-> 0, faces |-> 0,
                rid |-> r.rid, of |-> r.type]
DetectResp(r, n) == [type |-> "detect-faces-response", photoId |-> r.photoId,
                     faces |-> n, rid |-> r.rid, of |-> r.type]
\* rid and of are history: the real error message names no request
ErrorMsg(r) == [type |-> "error", photoId |-> 0, faces |-> 0, rid |-> r.rid, of |-> r.type]

LoadReq(l) == [type |-> "load-models", photoId |-> 0, rid |-> <<"load", l>>]
DetectReq(p, rid) == [type |-> "detect-faces", photoId |-> p, rid |-> rid]

StartL(l) == [kind |-> "start", id |-> l, c |-> "-", photo |-> 0, rid |-> <<>>]
LoadL(l) == [kind |-> "load", id |-> l, c |-> "-", photo |-> 0, rid |-> <<>>]
DetectL(c, p, rid) == [kind |-> "detect", id |-> 0, c |-> c, photo |-> p, rid |-> rid]

\* a detectFacesInPhoto promise: w is the ChildProcess its request went to;
\* seen is history: its messageHandler ran on a detect-faces-response that
\* it did not handle; old is history: the calls that had timed out when it
\* was issued
NoCall == [st |-> "none", photo |-> 0, rid |-> <<>>, w |-> 0, timer |-> FALSE,
           err |-> "", seen |-> FALSE, old |-> {}]
\* history: by which message (its type, photoId and request) a promise was
\* settled; expired holds the calls of the caller that were rejected by their timer
NoSettle == [rid |-> <<>>, photo |-> 0, ok |-> FALSE, err |-> "", by |-> <<>>,
             of |-> "-", byType |-> "-", byPhoto |-> 0, expired |-> {}, old |-> {}]
\* crashedAt is history: the index of the photo in flight when its worker
\* exited; progress holds the events handed to progressCallback so far
NoBatch == [pc |-> "idle", photos |-> <<>>, idx |-> 1, totalFaces |-> 0,
            photosProcessed |-> 0, errors |-> <<>>, runs |-> 0, crashedAt |-> 0,
            progress |-> <<>>]

\* the program state as one record, so that a handler is a function on it
Cur == [worker |-> worker, modelsLoaded |-> modelsLoaded, proc |-> proc,
        wModels |-> wModels, wReqs |-> wReqs, chan |-> chan,
        listeners |-> listeners, loads |-> loads, calls |-> calls,
        batch |-> batch, faces |-> faces, nextFaceId |-> nextFaceId,
        settled |-> settled, directCalls |-> directCalls, todo |-> <<>>,
        diskOk |-> TRUE]

\* the state a macrotask starts from; d says whether saveDatabase's
\* writeFileSync succeeds while it runs
At(d) == [Cur EXCEPT !.diskOk = d]

\* A ChildProcess whose process has exited and whose channel is drained
\* emits no further 'message': its listeners can never run again and are
\* left out of the state.
Reachable(S, w) == S.proc[w] = "alive" \/ S.chan[w] # <<>>

Commit(S) ==
  /\ worker' = S.worker
  /\ modelsLoaded' = S.modelsLoaded
  /\ proc' = S.proc
  /\ wModels' = S.wModels
  /\ wReqs' = S.wReqs
  /\ chan' = S.chan
  /\ listeners' = [w \in Workers |-> IF Reachable(S, w) THEN S.listeners[w] ELSE <<>>]
  /\ loads' = S.loads
  /\ calls' = S.calls
  /\ batch' = S.batch
  /\ faces' = S.faces
  /\ nextFaceId' = S.nextFaceId
  /\ settled' = S.settled
  /\ directCalls' = S.directCalls
  /\ UNCHANGED <<cl, people, photos, ui, ex>>

RemoveL(L, h) == SelectSeq(L, LAMBDA x : x # h)

\* ------------------------------------------------------------ worker side
\* faceWorker.ts process.on('message'): the synchronous part of handling
\* request r.  detectFacesInPhoto throws at once when the models are not
\* loaded; loadModels returns at once when they are; everything else awaits.
Receive(S, w, r) ==
  IF r.type = "detect-faces" /\ ~S.wModels[w]
    THEN [S EXCEPT !.chan[w] = Append(@, ErrorMsg(r))]
  ELSE IF r.type = "load-models" /\ S.wModels[w]
    THEN [S EXCEPT !.chan[w] = Append(@, LoadResp(r))]
  ELSE [S EXCEPT !.wReqs[w] = @ \cup {r}]

\* worker.send(...) on the current worker handle
send(S, r) == Receive(S, S.worker, r)

\* ------------------------------------------------------------- host side
\* startWorker: fork, register the exit handler and the once('message')
\* listener that waits for 'ready'.  The worker sends 'ready' when it starts.
startWorker(S, l) ==
  [S EXCEPT !.worker = l,
            !.proc[l] = "alive",
            !.chan[l] = <<ReadyMsg>>,
            !.listeners[l] = <<StartL(l)>>,
            !.loads[l] = "starting"]

\* loadModels after `await startWorker()`: the executor of the returned
\* promise.  worker!.once throws a TypeError when the handle is null, which
\* rejects the promise.
requestModels(S, l) ==
  IF S.worker = 0
    THEN [S EXCEPT !.loads[l] = "rejected"]
    ELSE send([S EXCEPT !.listeners[S.worker] = Append(@, LoadL(l)),
                        !.loads[l] = "loading"],
              LoadReq(l))

\* variant that forks whenever the models are not loaded, without looking
\* at the worker handle
loadModels_AlwaysFork(S, l) ==
  IF S.modelsLoaded THEN [S EXCEPT !.loads[l] = "returned"] ELSE startWorker(S, l)

\* variant without the early return of lines 59-61
loadModels_NoEarlyReturn(S, l) ==
  IF S.worker = 0 THEN startWorker(S, l) ELSE requestModels(S, l)

loadModels(S, l) ==
  IF S.modelsLoaded THEN [S EXCEPT !.loads[l] = "returned"]
  ELSE IF S.worker = 0 THEN startWorker(S, l)
  ELSE requestModels(S, l)

\* history: the calls that have timed out in state S
Expired(S) == UNION {S.settled[c].expired : c \in Callers}

\* history: the identity of the call that caller c makes in state S
CallId(S, c) ==
  IF c = "batch" THEN <<"batch", S.batch.runs, S.batch.idx>>
  ELSE <<"direct", S.directCalls>>

\* detectFacesInPhoto up to its first suspension
detectFacesInPhoto(S, c, p) ==
  IF ~S.modelsLoaded \/ S.worker = 0
    THEN [S EXCEPT !.calls[c] = [NoCall EXCEPT !.st = "rejected", !.photo = p,
                                               !.rid = CallId(S, c), !.err = "notready"]]
    ELSE send([S EXCEPT !.calls[c] = [NoCall EXCEPT !.st = "pending", !.photo = p,
                                               !.rid = CallId(S, c), !.w = S.worker,
                                               !.timer = TRUE, !.old = Expired(S)],
                        !.listeners[S.worker] = Append(@, DetectL(c, p, CallId(S, c)))],
              DetectReq(p, CallId(S, c)))

\* variant that leaves the rows of the photo in place
deleteFacesByPhotoId_KeepRows(fs, p) == fs

\* database.ts: the in-memory effect of the statements
deleteFacesByPhotoId(fs, p) == {f \in fs : f.photoId # p}

\* n calls of insertFace for photo p; src records the response they came
\* from and run the detectFacesInPhotos call that inserted them
insertFace(S, p, n, src) ==
  [S EXCEPT !.faces = @ \cup {[id |-> S.nextFaceId + k - 1, photoId |-> p, src |-> src,
                                run |-> S.batch.runs, personId |-> 0] : k \in 1..n},
            !.nextFaceId = @ + n]

\* variant whose catch block records the error and ends the loop
catch_Abort(S, e) ==
  [S EXCEPT !.batch.errors = Append(@, [photo |-> S.batch.photos[S.batch.idx], err |-> e]),
            !.batch.photosProcessed = @ + 1,
            !.batch.idx = Len(S.batch.photos) + 1]

\* the catch block of detectFacesInPhotos
catch(S, e) ==
  [S EXCEPT !.batch.errors = Append(@, [photo |-> S.batch.photos[S.batch.idx], err |-> e]),
            !.batch.photosProcessed = @ + 1,
            !.batch.idx = @ + 1]

\* variant that reports the share of the photos still to do
percentage_Remaining(done, total) == (200 * (total - done) + total) \div (2 * total)

\* Math.round((photosProcessed / photos.length) * 100)
percentage(done, total) == (200 * done + total) \div (2 * total)

\* the progress events of detectFacesInPhotos: before the loop, at the
\* start of the loop body, after the loop
StartEvent(ph) ==
  [phase |-> "detecting", file |-> 0, processed |-> 0, total |-> Len(ph), percentage |-> 0]

PhotoEvent(S) ==
  [phase |-> "detecting", file |-> S.batch.photos[S.batch.idx],
   processed |-> S.batch.photosProcessed, total |-> Len(S.batch.photos),
   percentage |-> percentage(S.batch.photosProcessed, Len(S.batch.photos))]

CompleteEvent(S) ==
  [phase |-> "complete", file |-> 0, processed |-> S.batch.photosProcessed,
   total |-> Len(S.batch.photos), percentage |-> 100]

\* the for loop of detectFacesInPhotos from photo batch.idx on, up to the
\* await of a pending detectFacesInPhoto promise or the end of the list.
\* runQuery applies the statement in memory and then saves the database, so
\* a failing save throws after the rows are gone.
RECURSIVE detectLoop(_)
detectLoop(S) ==
  IF S.batch.idx > Len(S.batch.photos)
    THEN [S EXCEPT !.batch.pc = "done", !.batch.progress = Append(@, CompleteEvent(S))]
    ELSE LET p == S.batch.photos[S.batch.idx]
             S1 == [S EXCEPT !.faces = deleteFacesByPhotoId(@, p),
                             !.batch.progress = Append(@, PhotoEvent(S))]
             S2 == detectFacesInPhoto(S1, "batch", p)
         IN IF ~S.diskOk THEN detectLoop(catch(S1, "db"))
            ELSE IF S2.calls["batch"].st = "rejected"
              THEN detectLoop(catch(S2, "notready"))
            ELSE [S2 EXCEPT !.batch.pc = "awaiting"]

\* detectFacesInPhotos after the await of detectFacesInPhoto: t says how
\* the promise was settled
resumeBatch(S, t) ==
  IF ~t.ok THEN detectLoop(catch(S, t.err))
  ELSE IF t.n > 0 /\ ~S.diskOk
    THEN detectLoop(catch(insertFace(S, S.batch.photos[S.batch.idx], 1, t.by), "db"))
  ELSE detectLoop([insertFace(S, S.batch.photos[S.batch.idx], t.n, t.by)
                     EXCEPT !.batch.totalFaces = @ + t.n,
                            !.batch.photosProcessed = @ + 1,
                            !.batch.idx = @ + 1])

\* resolve or reject of the promise of call rid of caller c; a promise
\* settles once, and its continuation is queued as a microtask
settle(S, c, rid, ok, err, m) ==
  IF S.calls[c].rid = rid /\ S.calls[c].st = "pending"
    THEN [S EXCEPT !.calls[c].st = IF ok THEN "resolved" ELSE "rejected",
                   !.calls[c].err = err,
                   !.calls[c].timer = FALSE,
                   !.settled[c] = [rid |-> rid, photo |-> S.calls[c].photo, ok |-> ok,
                                   err |-> err, by |-> m.rid, of |-> m.of,
                                   byType |-> m.type, byPhoto |-> m.photoId,
                                   expired |-> IF err = "timeout"
                                                 THEN S.settled[c].expired \cup {rid}
                                                 ELSE S.settled[c].expired,
                                   old |-> S.calls[c].old],
                   !.todo = Append(@, [kind |-> "detect", id |-> 0, c |-> c, ok |-> ok,
                                       err |-> err, n |-> m.faces, by |-> m.rid])]
    ELSE S

\* worker!.off('message', messageHandler): removes the listener from the
\* current worker handle
off(S, h) == [S EXCEPT !.listeners[S.worker] = RemoveL(@, h)]

\* the once('message') listener of startWorker
onReady(S, l, m) ==
  IF S.loads[l] # "starting" THEN S
  ELSE IF m.type = "ready"
    THEN [S EXCEPT !.todo = Append(@, [kind |-> "load", id |-> l, c |-> "-", ok |-> TRUE,
                                       err |-> "", n |-> 0, by |-> <<>>])]
  ELSE [S EXCEPT !.loads[l] = "rejected"]

\* the once('message') listener of loadModels
onLoadResponse(S, l, m) ==
  IF m.type = "load-models-response"
    THEN [S EXCEPT !.modelsLoaded = TRUE,
                   !.loads[l] = IF @ = "loading" THEN "resolved" ELSE @]
  ELSE IF m.type = "error"
    THEN [S EXCEPT !.loads[l] = IF @ = "loading" THEN "rejected" ELSE @]
  ELSE S

\* variant that takes every detect-faces-response, whatever its photoId
Handles_AnyPhotoId(h, m) ==
  m.type = "detect-faces-response" \/ m.type = "error"

\* whether messageHandler of listener h takes one of its two branches on m
Handles(h, m) ==
  \/ m.type = "detect-faces-response" /\ m.photoId = h.photo
  \/ m.type = "error"

\* messageHandler of detectFacesInPhoto, for a message it handles and a
\* non-null worker handle
messageHandler(S, h, m) ==
  settle(off(S, h), h.c, h.rid, m.type = "detect-faces-response",
         IF m.type = "error" THEN "worker" ELSE "", m)

\* messageHandler on a message that takes neither branch: nothing happens
\* (seen is history)
ignore(S, h, m) ==
  IF m.type = "detect-faces-response" /\ S.calls[h.c].rid = h.rid /\ S.calls[h.c].st = "pending"
    THEN [S EXCEPT !.calls[h.c].seen = TRUE]
    ELSE S

\* EventEmitter.emit('message', m) on ChildProcess w: every listener of the
\* snapshot L runs in registration order; once-listeners are removed before
\* they run; a listener that throws ends the emit.
RECURSIVE Dispatch(_, _, _, _)
Dispatch(S, w, m, L) ==
  IF L = <<>> THEN S
  ELSE LET h == Head(L)
           Sx == [S EXCEPT !.listeners[w] = RemoveL(@, h)]
       IN CASE h.kind = "start" -> Dispatch(onReady(Sx, h.id, m), w, m, Tail(L))
            [] h.kind = "load" -> Dispatch(onLoadResponse(Sx, h.id, m), w, m, Tail(L))
            [] OTHER ->
                 IF ~Handles(h, m) THEN Dispatch(ignore(S, h, m), w, m, Tail(L))
                 ELSE IF S.worker = 0 THEN S   \* worker!.off throws a TypeError
                 ELSE Dispatch(messageHandler(S, h, m), w, m, Tail(L))

\* the microtasks queued while the macrotask ran
RECURSIVE RunMicrotasks(_)
RunMicrotasks(S) ==
  IF S.todo = <<>> THEN S
  ELSE LET t == Head(S.todo)
           S0 == [S EXCEPT !.todo = Tail(@)]
       IN RunMicrotasks(CASE t.kind = "load" -> requestModels(S0, t.id)
                          [] t.kind = "detect" /\ t.c = "batch" -> resumeBatch(S0, t)
                          [] OTHER -> S0)

\* --------------------------------------------------------------- clustering
\* a face handed to clusterFaces: its id and its descriptor
Face(i, e) == [id |-> i, embedding |-> e]

\* calculateDistance, squared: the sum under Math.sqrt.  The descriptors
\* have the same length.
RECURSIVE calculateDistance(_, _)
calculateDistance(descriptor1, descriptor2) ==
  IF descriptor1 = <<>> THEN 0
  ELSE (Head(descriptor1) - Head(descriptor2)) * (Head(descriptor1) - Head(descriptor2))
       + calculateDistance(Tail(descriptor1), Tail(descriptor2))

\* distance < threshold for the squared distance sq: Math.sqrt(sq) is not
\* negative, so nothing is below a threshold <= 0
Below(sq, threshold) == threshold > 0 /\ sq < threshold * threshold

\* similarFaces.sort((a, b) => a.distance - b.distance): a stable insertion
\* of item x into the sorted list q
RECURSIVE InsertByDistance(_, _)
InsertByDistance(q, x) ==
  IF q = <<>> THEN <<x>>
  ELSE IF x.distance < Head(q).distance THEN <<x>> \o q
  ELSE <<Head(q)>> \o InsertByDistance(Tail(q), x)

RECURSIVE SortByDistance(_)
SortByDistance(q) ==
  IF q = <<>> THEN <<>>
  ELSE InsertByDistance(SortByDistance(SubSeq(q, 1, Len(q) - 1)), q[Len(q)])

\* variant of the sort of findSimilarFaces with the farthest face first
sorted_Descending(q) ==
  LET a == SortByDistance(q) IN [i \in DOMAIN a |-> a[Len(a) + 1 - i]]

\* similarFaces.sort(...) of findSimilarFaces
sorted(q) == SortByDistance(q)

\* variant that does not apply the threshold
findSimilarFaces_NoThreshold(targetDescriptor, allFaces, threshold) ==
  LET sortedFaces == SortByDistance(
                  [i \in DOMAIN allFaces |->
                     [face |-> allFaces[i],
                      distance |-> calculateDistance(targetDescriptor, allFaces[i].embedding)]])
  IN [i \in DOMAIN sortedFaces |-> sortedFaces[i].face]

findSimilarFaces(targetDescriptor, allFaces, threshold) ==
  LET item(i) == [face |-> allFaces[i],
                  distance |-> calculateDistance(targetDescriptor, allFaces[i].embedding)]
      similarFaces == SelectSeq([i \in DOMAIN allFaces |-> item(i)],
                                LAMBDA x : Below(x.distance, threshold))
      sortedFaces == sorted(similarFaces)
  IN [i \in DOMAIN sortedFaces |-> sortedFaces[i].face]

\* variant that takes every similar face, assigned or not
newMembers_Reassign(similarFaces, assignedFaces) == similarFaces

\* the inner loop of clusterFaces: the similar faces not yet assigned
newMembers(similarFaces, assignedFaces) ==
  SelectSeq(similarFaces, LAMBDA f : f.id \notin assignedFaces)

\* calculateAverageDescriptor: coordinate k of the average as the pair
\* <<sum, count>> of the division it makes
RECURSIVE SumCoord(_, _)
SumCoord(descriptors, k) ==
  IF descriptors = <<>> THEN 0
  ELSE Head(descriptors)[k] + SumCoord(Tail(descriptors), k)

calculateAverageDescriptor(descriptors) ==
  IF descriptors = <<>> THEN <<>>
  ELSE [k \in DOMAIN descriptors[1] |-> <<SumCoord(descriptors, k), Len(descriptors)>>]

\* the outer loop of clusterFaces from face i on
RECURSIVE clusterLoop(_, _, _, _, _)
clusterLoop(allFaces, i, clusters, assignedFaces, distanceThreshold) ==
  IF i > Len(allFaces) THEN clusters
  ELSE IF allFaces[i].id \in assignedFaces
    THEN clusterLoop(allFaces, i + 1, clusters, assignedFaces, distanceThreshold)
  ELSE LET similarFaces == findSimilarFaces(allFaces[i].embedding, allFaces, distanceThreshold)
           members == newMembers(similarFaces, assignedFaces)
           cluster == [faceIds |-> [k \in DOMAIN members |-> members[k].id],
                       descriptors |-> [k \in DOMAIN members |-> members[k].embedding]]
       IN clusterLoop(allFaces, i + 1,
                      IF members # <<>> THEN Append(clusters, cluster) ELSE clusters,
                      assignedFaces \cup {members[k].id : k \in DOMAIN members},
                      distanceThreshold)

clusterFaces(allFaces, distanceThreshold) ==
  IF allFaces = <<>> THEN <<>>
  ELSE LET clusters == clusterLoop(allFaces, 1, <<>>, {}, distanceThreshold)
       IN [k \in DOMAIN clusters |->
             [faceIds |-> clusters[k].faceIds,
              averageDescriptor |-> calculateAverageDescriptor(clusters[k].descriptors)]]

\* the clusterFaces call under study: not yet made
NoCluster == [pc |-> "idle", allFaces |-> <<>>, distanceThreshold |-> 0, result |-> <<>>,
              reordered |-> <<>>, resultReordered |-> <<>>]

\* ----------------------------------------------------------------- export
\* String(index).padStart(2, '0'): the decimal digits of index, with zeros in
\* front up to two characters
RECURSIVE Digits(_)
Digits(n) == IF n < 10 THEN <<n>> ELSE Digits(n \div 10) \o <<n % 10>>

padStart2(n) == IF Len(Digits(n)) < 2 THEN <<0>> \o Digits(n) ELSE Digits(n)

\* generateFolderName: a name is the prefix and the characters of the number
generateFolderName(index, config) ==
  CASE config.namingPattern = "S01" -> <<"S">> \o padStart2(index)
    [] config.namingPattern = "Week-01" -> <<"Week-">> \o padStart2(index)
    [] config.namingPattern = "custom" ->
         <<IF config.customPrefix # "" THEN config.customPrefix ELSE "W">> \o padStart2(index)
    [] OTHER -> <<"S">> \o padStart2(index)

\* validateExportConfig, for an absolute destination path
validateExportConfig(config) ==
  IF config.namingPattern = "custom" /\ config.customPrefix = ""
    THEN <<"Custom prefix is required when using custom naming pattern">>
    ELSE <<>>

\* the number exportFavorites hands to generateFolderName for week i of the
\* exported weeks: week.weekNumber
folderIndex(weeksToExport, i) == weeksToExport[i].weekNumber

\* exportFavorites: one folder for each week with favorites; existing
\* folders are used as they are
exportFavorites(weeks, config) ==
  LET weeksToExport == SelectSeq(weeks, LAMBDA w : w.favoriteCount > 0)
  IN IF weeksToExport = <<>> THEN [error |-> "No favorites to export", folders |-> <<>>]
     ELSE [error |-> "",
           folders |-> [i \in DOMAIN weeksToExport |->
                          [folderName |-> generateFolderName(folderIndex(weeksToExport, i), config),
                           weekNumber |-> weeksToExport[i].weekNumber,
                           year |-> weeksToExport[i].year,
                           photoCount |-> weeksToExport[i].favoriteCount]]]

\* the Export Preview: S01, S02, ... by position among the weeks with
\* favorites
exportPreview(weeks) ==
  LET weeksWithFavorites == SelectSeq(weeks, LAMBDA w : w.favoriteCount > 0)
  IN [i \in DOMAIN weeksWithFavorites |->
        [folderName |-> <<"S">> \o padStart2(i),
         weekNumber |-> weeksWithFavorites[i].weekNumber,
         year |-> weeksWithFavorites[i].year]]

NoConfig == [namingPattern |-> "S01", customPrefix |-> ""]
NoExport == [pc |-> "idle", weeks |-> <<>>, config |-> NoConfig, preview |-> <<>>,
             folders |-> <<>>, error |-> ""]

\* ------------------------------------------------------------ people store
\* person_id NULL, representative_face_id NULL and an unbound SQL parameter
\* are 0; the ids of rows start at 1
NoPeople == [rows |-> {}, next |-> 1]

\* the photos table: the photos of H are hidden
PhotoRows(H) == {[id |-> p, isHidden |-> p \in H] : p \in Photos}

\* before is history: the faces table when the operation began
NoLabel == [pc |-> "none", faces |-> <<>>, person |-> 0, i |-> 1, error |-> "",
            before |-> {}]
NoLast == [op |-> "none", id |-> 0, ok |-> FALSE, n |-> 0, personIds |-> <<>>,
           mode |-> "-", result |-> <<>>]
NoUi == [label |-> NoLabel, last |-> NoLast]

\* the store as one record; d says whether saveDatabase succeeds
Store(d) == [faces |-> faces, people |-> people, photos |-> photos, diskOk |-> d,
             threw |-> FALSE]

\* runQuery: db.run, then saveDatabase, which throws when the write fails
saved(T) == [T EXCEPT !.threw = ~T.diskOk]

\* insertPerson: the new row gets the next id of the sequence
insertPerson(T, name, representativeFaceId) ==
  saved([T EXCEPT !.people.rows = @ \cup {[id |-> T.people.next, name |-> name,
                                           representativeFaceId |-> representativeFaceId]},
                  !.people.next = @ + 1])

\* updateFacePersonId
updateFacePersonId(T, faceId, personId) ==
  saved([T EXCEPT !.faces = {IF f.id = faceId THEN [f EXCEPT !.personId = personId] ELSE f
                             : f \in @}])

\* variant that deletes the row of the person and leaves the faces alone
deletePerson_KeepFaces(T, id, d2) ==
  [T EXCEPT !.people.rows = {r \in @ : r.id # id}, !.threw = ~T.diskOk \/ ~d2]

\* updatePerson
updatePerson(T, id, name, representativeFaceId) ==
  saved([T EXCEPT !.people.rows =
           {IF r.id = id THEN [r EXCEPT !.name = name,
                                        !.representativeFaceId = representativeFaceId]
            ELSE r : r \in @}])

\* deletePerson: two statements, each followed by a save (the second save
\* succeeds when d2)
deletePerson(T, id, d2) ==
  LET T1 == saved([T EXCEPT !.faces = {IF f.personId = id THEN [f EXCEPT !.personId = 0]
                                       ELSE f : f \in @}])
  IN IF T1.threw THEN T1
     ELSE [T1 EXCEPT !.people.rows = {r \in @ : r.id # id}, !.threw = ~d2]

\* people p LEFT JOIN faces f ON f.person_id = p.id, the rows of the group
\* of person r: one row for each face of r, or one row of NULLs
leftJoin(T, r) ==
  LET matching == {f \in T.faces : f.personId # 0 /\ f.personId = r.id}
  IN IF matching = {} THEN {[faceId |-> 0, photoId |-> 0]}
     ELSE {[faceId |-> f.id, photoId |-> f.photoId] : f \in matching}

\* variant that counts the joined rows, COUNT(f.id)
photo_count_Rows(rows) == Cardinality({j \in rows : j.faceId # 0})

\* COUNT(DISTINCT f.photo_id): the distinct non-NULL values of the group
photo_count(rows) == Cardinality({j.photoId : j \in rows} \ {0})

\* clearAllPhotos: DELETE FROM photos.  The faces table declares ON DELETE
\* CASCADE on photo_id, which SQLite enforces only when the build or the
\* connection turns foreign keys on (the code sets no pragma): fk says
\* whether the cascade runs
clearAllPhotos(T, fk) ==
  saved([T EXCEPT !.photos = {},
                  !.faces = IF fk THEN {f \in @ : \A p \in T.photos : p.id # f.photoId}
                            ELSE @])

\* insertPhoto for n scanned photos: AUTOINCREMENT ids after the ids of the
\* first scan, isHidden false
insertPhotos(T, n) ==
  [T EXCEPT !.photos = @ \cup {[id |-> NumPhotos + k, isHidden |-> FALSE] : k \in 1..n}]

\* the rows of getAllPeople / getPersonById
personRow(T, r) ==
  [id |-> r.id, name |-> r.name, representativeFaceId |-> r.representativeFaceId,
   photoCount |-> photo_count(leftJoin(T, r))]

\* getPersonById: the row of id, or 0 for null
getPersonById(T, id) ==
  IF \E r \in T.people.rows : r.id = id
    THEN personRow(T, CHOOSE r \in T.people.rows : r.id = id)
    ELSE 0

getAllPeople(T) == {personRow(T, r) : r \in T.people.rows}

\* SQL three-valued logic: x IN (list), with 0 for NULL
In(x, list) ==
  IF x = 0 THEN "null"
  ELSE IF \E i \in DOMAIN list : list[i] # 0 /\ list[i] = x THEN "true"
  ELSE IF \E i \in DOMAIN list : list[i] = 0 THEN "null"
  ELSE "false"

NotIn(x, list) ==
  CASE In(x, list) = "true" -> "false"
    [] In(x, list) = "false" -> "true"
    [] OTHER -> "null"

\* parameter i of a statement run with the array params: sql.js binds the
\* array by position and leaves every further placeholder unbound (NULL)
Bound(params, i) == IF i \in DOMAIN params THEN params[i] ELSE 0

\* ORDER BY p.capture_date ASC of a set of photo ids (the photos are
\* numbered in capture order)
RECURSIVE Ordered(_)
Ordered(P) ==
  IF P = {} THEN <<>>
  ELSE LET m == CHOOSE x \in P : \A y \in P : x <= y
       IN <<m>> \o Ordered(P \ {m})

\* getPhotosByPeople, 'only' branch: the statement has 2n + 1 placeholders
\* (first IN list, HAVING, second IN list) and gets the n + 1 parameters
\* [...personIds, personIds.length]
onlyBranch(T, personIds) ==
  LET n == Len(personIds)
      params == personIds \o <<n>>
      first == [i \in 1..n |-> Bound(params, i)]
      having == Bound(params, n + 1)
      second == [i \in 1..n |-> Bound(params, n + 1 + i)]
      group(p) == {g \in T.faces : g.photoId = p /\ In(g.personId, first) = "true"}
      grouped == {p \in {f.photoId : f \in T.faces} :
                    /\ group(p) # {}
                    /\ Cardinality({g.personId : g \in group(p)}) = having}
      others == {f.photoId : f \in {g \in T.faces : NotIn(g.personId, second) = "true"
                                                     /\ g.personId # 0}}
  IN {p \in T.photos : p.id \in grouped /\ p.id \notin others /\ ~p.isHidden}

\* variant of the 'any' branch without the is_hidden condition
anyBranch_WithHidden(T, personIds) ==
  {p \in T.photos :
     \E f \in T.faces : f.photoId = p.id /\ In(f.personId, personIds) = "true"}

\* getPhotosByPeople, 'any' branch: DISTINCT over the join with faces
anyBranch(T, personIds) ==
  {p \in T.photos :
     /\ \E f \in T.faces : f.photoId = p.id /\ In(f.personId, personIds) = "true"
     /\ ~p.isHidden}

getPhotosByPeople(T, personIds, mode) ==
  LET rows == IF mode = "any" THEN anyBranch(T, personIds) ELSE onlyBranch(T, personIds)
  IN Ordered({p.id : p \in rows})

\* ------------------------------------------------------------------ inputs
\* photo lists without repetition, as the photos table yields them
PhotoLists ==
  {ph \in UNION {[1..n -> Photos] : n \in 1..MaxLen} :
     \A i, j \in DOMAIN ph : i # j => ph[i] # ph[j]}

\* the faces table a previous session left behind: one row for each photo of P
StoredFaces(P) ==
  {[id |-> Cardinality({q \in P : q <= p}), photoId |-> p, src |-> 0, run |-> 0,
    personId |-> 0] : p \in P}

TimeoutMsg == [type |-> "timeout", photoId |-> 0, faces |-> 0, rid |-> <<>>, of |-> "-"]

Init ==
  /\ worker = 0
  /\ modelsLoaded = FALSE
  /\ proc = [w \in Workers |-> "unforked"]
  /\ wModels = [w \in Workers |-> FALSE]
  /\ wReqs = [w \in Workers |-> {}]
  /\ chan = [w \in Workers |-> <<>>]
  /\ listeners = [w \in Workers |-> <<>>]
  /\ loads = [l \in LoadIds |-> "idle"]
  /\ calls = [c \in Callers |-> NoCall]
  /\ batch = NoBatch
  /\ faces = StoredFaces(Photos)
  /\ nextFaceId = NumPhotos + 1
  /\ settled = [c \in Callers |-> NoSettle]
  /\ directCalls = 0
  /\ cl = NoCluster
  /\ people = NoPeople
  /\ photos = PhotoRows({})
  /\ ui = NoUi
  /\ ex = NoExport

\* ----------------------------------------------------------------- actions
\* IPC invocations made so far
Invocations == Cardinality({l \in LoadIds : loads[l] # "idle"}) + batch.runs + directCalls

\* ipcMain 'load-face-models': loadModels up to its first suspension
LoadModelsCall(l) ==
  /\ loads[l] = "idle"
  /\ Invocations < MaxInvocations
  /\ \A k \in LoadIds : k < l => loads[k] # "idle"
  /\ Commit(loadModels(Cur, l))

\* ipcMain 'detect-faces-in-photos': detectFacesInPhotos up to its first suspension
BatchStart(ph, d) ==
  /\ batch.pc \in {"idle", "done"}
  /\ batch.runs < MaxBatches
  /\ Invocations < MaxInvocations
  /\ Commit(detectLoop([At(d) EXCEPT !.batch = [NoBatch EXCEPT !.photos = ph,
                                                               !.runs = batch.runs + 1,
                                                               !.progress = <<StartEvent(ph)>>]]))

\* ipcMain 'detect-faces-in-photo'
DirectDetect(p) ==
  /\ calls["direct"].st # "pending"
  /\ directCalls < MaxDirect
  /\ Invocations < MaxInvocations
  /\ Commit(detectFacesInPhoto([Cur EXCEPT !.directCalls = @ + 1], "direct", p))

\* the worker ends the handling of a load-models request
WorkerLoadDone(w, r) ==
  /\ proc[w] = "alive" /\ r \in wReqs[w] /\ r.type = "load-models"
  /\ wReqs' = [wReqs EXCEPT ![w] = @ \ {r}]
  /\ wModels' = [wModels EXCEPT ![w] = TRUE]
  /\ chan' = [chan EXCEPT ![w] = Append(@, LoadResp(r))]
  /\ UNCHANGED <<worker, modelsLoaded, proc, listeners, loads, calls, batch, faces,
                 nextFaceId, settled, directCalls, cl, people, photos, ui, ex>>

\* the worker ends the handling of a detect-faces request with n faces
WorkerDetectDone(w, r, n) ==
  /\ proc[w] = "alive" /\ r \in wReqs[w] /\ r.type = "detect-faces"
  /\ wReqs' = [wReqs EXCEPT ![w] = @ \ {r}]
  /\ chan' = [chan EXCEPT ![w] = Append(@, DetectResp(r, n))]
  /\ UNCHANGED <<worker, modelsLoaded, proc, wModels, listeners, loads, calls, batch,
                 faces, nextFaceId, settled, directCalls, cl, people, photos, ui, ex>>

\* the handling of a request throws: the catch of the worker's handler
WorkerFail(w, r) ==
  /\ proc[w] = "alive" /\ r \in wReqs[w]
  /\ wReqs' = [wReqs EXCEPT ![w] = @ \ {r}]
  /\ chan' = [chan EXCEPT ![w] = Append(@, ErrorMsg(r))]
  /\ UNCHANGED <<worker, modelsLoaded, proc, wModels, listeners, loads, calls, batch,
                 faces, nextFaceId, settled, directCalls, cl, people, photos, ui, ex>>

\* the worker process ends and its 'exit' event runs the handler of
\* startWorker.  Messages the process had sent may still be dispatched
\* afterwards (keep) or are lost with the channel.
WorkerExit(w, keep) ==
  /\ proc[w] = "alive"
  /\ proc' = [proc EXCEPT ![w] = "exited"]
  /\ wReqs' = [wReqs EXCEPT ![w] = {}]
  /\ wModels' = [wModels EXCEPT ![w] = FALSE]
  /\ chan' = [chan EXCEPT ![w] = IF keep THEN @ ELSE <<>>]
  /\ listeners' = [listeners EXCEPT ![w] = IF keep /\ chan[w] # <<>> THEN @ ELSE <<>>]
  /\ worker' = 0
  /\ modelsLoaded' = FALSE
  /\ batch' = IF batch.pc = "awaiting" /\ calls["batch"].w = w /\ batch.crashedAt = 0
                THEN [batch EXCEPT !.crashedAt = batch.idx]
                ELSE batch
  /\ UNCHANGED <<loads, calls, faces, nextFaceId, settled, directCalls, cl, people, photos, ui, ex>>

\* the 'message' event of ChildProcess w for the oldest undelivered message
Deliver(w, d) ==
  /\ proc[w] # "unforked"
  /\ chan[w] # <<>>
  /\ Commit(RunMicrotasks(Dispatch([At(d) EXCEPT !.chan[w] = Tail(@)], w,
                                   Head(chan[w]), listeners[w])))

\* setTimeout of startWorker (10 s)
StartTimeout(l) ==
  /\ loads[l] = "starting"
  /\ loads' = [loads EXCEPT ![l] = "rejected"]
  /\ UNCHANGED <<worker, modelsLoaded, proc, wModels, wReqs, chan, listeners, calls,
                 batch, faces, nextFaceId, settled, directCalls, cl, people, photos, ui, ex>>

\* setTimeout of loadModels (30 s); the once-listener stays registered
LoadTimeout(l) ==
  /\ loads[l] = "loading"
  /\ loads' = [loads EXCEPT ![l] = "rejected"]
  /\ UNCHANGED <<worker, modelsLoaded, proc, wModels, wReqs, chan, listeners, calls,
                 batch, faces, nextFaceId, settled, directCalls, cl, people, photos, ui, ex>>

\* variant whose timer callback rejects without removing the listener
timeout_KeepListener(S, c) ==
  IF S.worker = 0
    THEN [S EXCEPT !.calls[c].timer = FALSE]
    ELSE settle(S, c, S.calls[c].rid, FALSE, "timeout", TimeoutMsg)

\* the timer callback of detectFacesInPhoto for the pending call of c
timeout(S, c) ==
  IF S.worker = 0
    THEN [S EXCEPT !.calls[c].timer = FALSE]   \* worker!.off throws a TypeError
    ELSE settle(off(S, DetectL(c, S.calls[c].photo, S.calls[c].rid)),
                c, S.calls[c].rid, FALSE, "timeout", TimeoutMsg)

\* setTimeout of detectFacesInPhoto (60 s)
DetectTimeout(c, d) ==
  /\ calls[c].st = "pending"
  /\ calls[c].timer
  /\ Commit(RunMicrotasks(timeout(At(d), c)))

Next ==
  \/ \E l \in LoadIds : LoadModelsCall(l)
  \/ \E ph \in PhotoLists : \E d \in BOOLEAN : BatchStart(ph, d)
  \/ \E p \in Photos : DirectDetect(p)
  \/ \E w \in Workers : \E r \in wReqs[w] : WorkerLoadDone(w, r)
  \/ \E w \in Workers : \E r \in wReqs[w] : \E n \in 0..MaxFaces : WorkerDetectDone(w, r, n)
  \/ \E w \in Workers : \E r \in wReqs[w] : WorkerFail(w, r)
  \/ \E w \in Workers : \E keep \in BOOLEAN : WorkerExit(w, keep)
  \/ \E w \in Workers : \E d \in BOOLEAN : Deliver(w, d)
  \/ \E l \in LoadIds : StartTimeout(l)
  \/ \E l \in LoadIds : LoadTimeout(l)
  \/ \E c \in Callers : \E d \in BOOLEAN : DetectTimeout(c, d)

Spec == Init /\ [][Next]_vars

\* ------------------------------------------------- clusterFaces on its own
\* face lists with distinct ids and one-coordinate descriptors; the ids
\* follow the list order, every arrangement of descriptors occurs
FaceLists ==
  UNION {{[i \in 1..n |-> Face(i, <<e[i]>>)] : e \in [1..n -> 0..MaxCoord]}
         : n \in 0..MaxClusterFaces}

\* the reorderings of list q
Reorderings(q) == {[i \in DOMAIN q |-> q[f[i]]] : f \in Permutations(DOMAIN q)}

InitCluster ==
  /\ worker = 0
  /\ modelsLoaded = FALSE
  /\ proc = [w \in Workers |-> "unforked"]
  /\ wModels = [w \in Workers |-> FALSE]
  /\ wReqs = [w \in Workers |-> {}]
  /\ chan = [w \in Workers |-> <<>>]
  /\ listeners = [w \in Workers |-> <<>>]
  /\ loads = [l \in LoadIds |-> "idle"]
  /\ calls = [c \in Callers |-> NoCall]
  /\ batch = NoBatch
  /\ faces = StoredFaces(Photos)
  /\ nextFaceId = NumPhotos + 1
  /\ settled = [c \in Callers |-> NoSettle]
  /\ directCalls = 0
  /\ \E fs \in FaceLists : \E t \in 0..MaxThreshold :
       cl = [NoCluster EXCEPT !.pc = "input", !.allFaces = fs, !.distanceThreshold = t]
  /\ people = NoPeople
  /\ photos = PhotoRows({})
  /\ ui = NoUi
  /\ ex = NoExport

\* ipcMain 'cluster-faces': clusterFaces(allFaces, distanceThreshold)
ClusterFacesCall ==
  /\ cl.pc = "input"
  /\ cl' = [cl EXCEPT !.pc = "done",
                       !.result = clusterFaces(cl.allFaces, cl.distanceThreshold)]
  /\ UNCHANGED <<worker, modelsLoaded, proc, wModels, wReqs, chan, listeners, loads,
                 calls, batch, faces, nextFaceId, settled, directCalls, people, photos, ui, ex>>

\* clusterFaces on the same faces in another order fs
ClusterFacesReordered(fs) ==
  /\ cl.pc = "done"
  /\ cl' = [cl EXCEPT !.pc = "compared", !.reordered = fs,
                       !.resultReordered = clusterFaces(fs, cl.distanceThreshold)]
  /\ UNCHANGED <<worker, modelsLoaded, proc, wModels, wReqs, chan, listeners, loads,
                 calls, batch, faces, nextFaceId, settled, directCalls, people, photos, ui, ex>>

NextCluster ==
  \/ ClusterFacesCall
  \/ \E fs \in Reorderings(cl.allFaces) : ClusterFacesReordered(fs)

SpecCluster == InitCluster /\ [][NextCluster]_vars

\* ------------------------------------------------------ export on its own
\* the weeks App builds from the photos: one Week for each (year, weekNumber)
\* that has photos, sorted by year, then weekNumber
Keys == (1..MaxYears) \X (1..MaxWeek)

Before(a, b) == a[1] < b[1] \/ (a[1] = b[1] /\ a[2] < b[2])

RECURSIVE SortedKeys(_)
SortedKeys(K) ==
  IF K = {} THEN <<>>
  ELSE LET m == CHOOSE x \in K : \A y \in K \ {x} : Before(x, y)
       IN <<m>> \o SortedKeys(K \ {m})

WeekLists ==
  {[i \in DOMAIN SortedKeys(K) |->
      [year |-> SortedKeys(K)[i][1], weekNumber |-> SortedKeys(K)[i][2],
       favoriteCount |-> fav[SortedKeys(K)[i]]]]
   : K \in SUBSET Keys, fav \in [Keys -> 0..MaxFavorites]}

Configs ==
  {[namingPattern |-> "S01", customPrefix |-> ""],
   [namingPattern |-> "Week-01", customPrefix |-> ""],
   [namingPattern |-> "custom", customPrefix |-> ""],
   [namingPattern |-> "custom", customPrefix |-> "X"]}

InitExport ==
  /\ worker = 0
  /\ modelsLoaded = FALSE
  /\ proc = [w \in Workers |-> "unforked"]
  /\ wModels = [w \in Workers |-> FALSE]
  /\ wReqs = [w \in Workers |-> {}]
  /\ chan = [w \in Workers |-> <<>>]
  /\ listeners = [w \in Workers |-> <<>>]
  /\ loads = [l \in LoadIds |-> "idle"]
  /\ calls = [c \in Callers |-> NoCall]
  /\ batch = NoBatch
  /\ faces = {}
  /\ nextFaceId = 1
  /\ settled = [c \in Callers |-> NoSettle]
  /\ directCalls = 0
  /\ cl = NoCluster
  /\ people = NoPeople
  /\ photos = PhotoRows({})
  /\ ui = NoUi
  /\ \E ws \in WeekLists : \E config \in Configs :
       ex = [NoExport EXCEPT !.pc = "input", !.weeks = ws, !.config = config]

ExportQuiet ==
  UNCHANGED <<worker, modelsLoaded, proc, wModels, wReqs, chan, listeners, loads,
              calls, batch, faces, nextFaceId, settled, directCalls, cl, people, photos, ui>>

\* the export view renders its preview of the folders
ExportPreview ==
  /\ ex.pc = "input"
  /\ ex' = [ex EXCEPT !.pc = "previewed", !.preview = exportPreview(ex.weeks)]
  /\ ExportQuiet

\* ipcMain 'export-favorites': validateExportConfig, then exportFavorites;
\* both failures are rethrown to the renderer
ExportFavoritesCall ==
  /\ ex.pc = "previewed"
  /\ LET errors == validateExportConfig(ex.config)
         result == exportFavorites(ex.weeks, ex.config)
     IN ex' = IF errors # <<>>
                THEN [ex EXCEPT !.pc = "done", !.error = "Invalid export configuration"]
                ELSE [ex EXCEPT !.pc = "done", !.error = result.error,
                                !.folders = result.folders]
  /\ ExportQuiet

NextExport ==
  \/ ExportPreview
  \/ ExportFavoritesCall

SpecExport == InitExport /\ [][NextExport]_vars

\* ------------------------------------------------ people store on its own
HostQuiet ==
  UNCHANGED <<worker, modelsLoaded, proc, wModels, wReqs, chan, listeners, loads,
              calls, batch, nextFaceId, settled, directCalls, cl, ex>>

\* the faces of the store, all unlabeled: FacesPerPhoto faces on the first
\* photo (ids 1..FacesPerPhoto), one face on every other photo
StoreFaces ==
  {[id |-> k, photoId |-> 1, src |-> 0, run |-> 0, personId |-> 0] : k \in 1..FacesPerPhoto}
  \cup {[id |-> FacesPerPhoto + p - 1, photoId |-> p, src |-> 0, run |-> 0, personId |-> 0]
        : p \in Photos \ {1}}

Names == {"Ann"}
Outcomes == {"ok", "saveFails", "throws"}
IdLists == UNION {[1..n -> 1..MaxPeople] : n \in 0..MaxIds}

\* the clusters PeopleTab can show: member faces in the order of getAllFaces
Clusters == {Ordered(C) : C \in (SUBSET {f.id : f \in faces}) \ {{}}}

\* handleClusterFaces: the personId a cluster is shown with,
\* clusterFaces[0]?.personId || null, where clusterFaces are the members in
\* the order of getAllFaces
clusterPersonId(c) == (CHOOSE f \in faces : f.id = c[1]).personId

InitStore ==
  /\ worker = 0
  /\ modelsLoaded = FALSE
  /\ proc = [w \in Workers |-> "unforked"]
  /\ wModels = [w \in Workers |-> FALSE]
  /\ wReqs = [w \in Workers |-> {}]
  /\ chan = [w \in Workers |-> <<>>]
  /\ listeners = [w \in Workers |-> <<>>]
  /\ loads = [l \in LoadIds |-> "idle"]
  /\ calls = [c \in Callers |-> NoCall]
  /\ batch = NoBatch
  /\ faces = StoreFaces
  /\ nextFaceId = FacesPerPhoto + NumPhotos
  /\ settled = [c \in Callers |-> NoSettle]
  /\ directCalls = 0
  /\ cl = NoCluster
  /\ people = NoPeople
  /\ \E H \in SUBSET Photos : photos = PhotoRows(H)
  /\ ui = NoUi
  /\ ex = NoExport

\* the label dialog of PeopleTab is not in the middle of handleSaveLabel; the
\* ui record keeps the outcome of the latest operation only
Idle == ui.label.pc # "assigning"

\* ipcMain 'create-person': insertPerson, then getPersonById; a throw is rethrown
CreatePerson(name, representativeFaceId, d) ==
  /\ Idle
  /\ people.next <= MaxPeople
  /\ LET T == insertPerson(Store(d), name, representativeFaceId)
     IN /\ people' = T.people
        /\ ui' = [NoUi EXCEPT !.last = [NoLast EXCEPT !.op = "create-person",
                                                      !.id = people.next, !.ok = ~T.threw]]
  /\ UNCHANGED <<faces, photos>>
  /\ HostQuiet

\* the handler of 'assign-face-to-person' on the store T: it returns false
\* when updateFacePersonId throws, before the statement ran (o = "throws")
\* or in the save after it (o = "saveFails")
assignFaceToPerson(T, faceId, personId, o) ==
  IF o = "throws" THEN [T EXCEPT !.threw = TRUE]
  ELSE updateFacePersonId([T EXCEPT !.diskOk = (o = "ok")], faceId, personId)

\* ipcMain 'assign-face-to-person'
AssignFace(faceId, personId, o) ==
  /\ Idle
  /\ LET T == assignFaceToPerson(Store(TRUE), faceId, personId, o)
     IN /\ faces' = T.faces
        /\ ui' = [NoUi EXCEPT !.last = [NoLast EXCEPT !.op = "assign-face-to-person",
                                                      !.id = faceId, !.ok = ~T.threw]]
  /\ UNCHANGED <<people, photos>>
  /\ HostQuiet

\* ipcMain 'delete-person': false when deletePerson throws; n is history,
\* the number of faces that pointed at the person
DeletePerson(id, d1, d2) ==
  /\ Idle
  /\ \E r \in people.rows : r.id = id
  /\ LET T == deletePerson(Store(d1), id, d2)
     IN /\ faces' = T.faces
        /\ people' = T.people
        /\ ui' = [NoUi EXCEPT !.last = [NoLast EXCEPT !.op = "delete-person", !.id = id,
                      !.ok = ~T.threw,
                      !.n = Cardinality({f \in faces : f.personId = id})]]
  /\ UNCHANGED photos
  /\ HostQuiet

\* ipcMain 'get-photos-by-people'
GetPhotosByPeople(personIds, mode) ==
  /\ Idle
  /\ ui' = [NoUi EXCEPT !.last = [NoLast EXCEPT !.op = "get-photos-by-people", !.ok = TRUE,
                !.personIds = personIds, !.mode = mode,
                !.result = getPhotosByPeople(Store(TRUE), personIds, mode)]]
  /\ UNCHANGED <<faces, people, photos>>
  /\ HostQuiet

\* PeopleTab handleSaveLabel up to its first suspension and the answer of
\* createPerson: a rejected createPerson ends the operation in the catch
\* block (console.error)
LabelStart(cluster, name, d) ==
  /\ Idle
  /\ people.next <= MaxPeople
  /\ LET T == insertPerson(Store(d), name, cluster[1])
     IN /\ people' = T.people
        /\ ui' = [NoUi EXCEPT !.label =
                    IF T.threw
                      THEN [NoLabel EXCEPT !.pc = "ended", !.faces = cluster,
                                           !.error = "logged", !.before = faces]
                      ELSE [NoLabel EXCEPT !.pc = "assigning", !.faces = cluster,
                                           !.person = people.next, !.before = faces]]
  /\ UNCHANGED <<faces, photos>>
  /\ HostQuiet

\* one turn of the loop of handleSaveLabel: assignFaceToPerson for the next
\* member face; its result is not looked at.  After the last face the
\* operation ends (people reloaded, dialog closed).
LabelAssign(o) ==
  /\ ui.label.pc = "assigning"
  /\ LET T == assignFaceToPerson(Store(TRUE), ui.label.faces[ui.label.i], ui.label.person, o)
     IN faces' = T.faces
  /\ ui' = [ui EXCEPT !.label.i = @ + 1,
                      !.label.pc = IF ui.label.i = Len(ui.label.faces) THEN "ended" ELSE @]
  /\ UNCHANGED <<people, photos>>
  /\ HostQuiet

\* ipcMain 'scan-photos' of a directory with n photos: clearAllPhotos, then
\* one insertPhoto for each scanned photo; a throw of clearAllPhotos is
\* caught and ends the handler.  One rescan with photos is modelled.
ScanPhotos(n, fk, d) ==
  /\ Idle
  /\ \A p \in photos : p.id \in Photos
  /\ LET T1 == clearAllPhotos(Store(d), fk)
         T == IF T1.threw THEN T1 ELSE insertPhotos(T1, n)
     IN /\ photos' = T.photos
        /\ faces' = T.faces
        /\ ui' = [NoUi EXCEPT !.last = [NoLast EXCEPT !.op = "scan-photos", !.ok = ~T.threw,
                                                      !.n = n]]
  /\ UNCHANGED people
  /\ HostQuiet

\* ipcMain 'update-person': updatePerson, then getPersonById; a throw is
\* rethrown
UpdatePerson(id, name, representativeFaceId, d) ==
  /\ Idle
  /\ \E r \in people.rows : r.id = id
  /\ LET T == updatePerson(Store(d), id, name, representativeFaceId)
     IN /\ people' = T.people
        /\ ui' = [NoUi EXCEPT !.last = [NoLast EXCEPT !.op = "update-person", !.id = id,
                                                      !.ok = ~T.threw]]
  /\ UNCHANGED <<faces, photos>>
  /\ HostQuiet

\* ipcMain 'detect-faces-in-photos' for the one photo p, seen from the
\* store: deleteFacesByPhotoId(p), then insertFace for each of the n faces
\* the worker found; a failing save throws after the deletion and the
\* catch block of detectFacesInPhotos ends the photo
DetectFaces(p, n, d) ==
  /\ Idle
  /\ \E q \in photos : q.id = p
  /\ nextFaceId + n <= FacesPerPhoto + NumPhotos + MaxDetected
  /\ LET m == IF d THEN n ELSE 0
     IN /\ faces' = deleteFacesByPhotoId(faces, p)
                      \cup {[id |-> nextFaceId + k - 1, photoId |-> p, src |-> 0, run |-> 0,
                             personId |-> 0] : k \in 1..m}
        /\ nextFaceId' = nextFaceId + m
  /\ ui' = [NoUi EXCEPT !.last = [NoLast EXCEPT !.op = "detect-faces-in-photos", !.id = p,
                                                !.ok = d, !.n = n]]
  /\ UNCHANGED <<worker, modelsLoaded, proc, wModels, wReqs, chan, listeners, loads,
                 calls, batch, settled, directCalls, cl, people, photos, ex>>

NextStore ==
  \/ \E name \in Names : \E f \in {0} \cup {g.id : g \in faces} : \E d \in BOOLEAN :
       CreatePerson(name, f, d)
  \/ \E f \in {g.id : g \in faces} : \E q \in 0..MaxPeople : \E o \in Outcomes :
       AssignFace(f, q, o)
  \/ \E q \in 1..MaxPeople : \E d1, d2 \in BOOLEAN : DeletePerson(q, d1, d2)
  \/ \E ids \in IdLists : \E mode \in {"any", "only"} : GetPhotosByPeople(ids, mode)
  \/ \E c \in Clusters : \E name \in Names : \E d \in BOOLEAN : LabelStart(c, name, d)
  \/ \E o \in Outcomes : LabelAssign(o)
  \/ \E n \in 0..MaxScanned : \E fk, d \in BOOLEAN : ScanPhotos(n, fk, d)

SpecStore == InitStore /\ [][NextStore]_vars

\* the people table next to detection runs: create-person, update-person and
\* detect-faces-in-photos on the same store
NextPeople ==
  \/ \E name \in Names : \E f \in {0} \cup {g.id : g \in faces} : \E d \in BOOLEAN :
       CreatePerson(name, f, d)
  \/ \E q \in 1..MaxPeople : \E name \in Names : \E f \in {0} \cup {g.id : g \in faces} :
       \E d \in BOOLEAN : UpdatePerson(q, name, f, d)
  \/ \E p \in Photos : \E n \in 0..MaxDetected : \E d \in BOOLEAN : DetectFaces(p, n, d)

SpecPeople == InitStore /\ [][NextPeople]_vars

\* ------------------------------------------------------------ well-formedness
TypeOK ==
  /\ worker \in {0} \cup Workers
  /\ modelsLoaded \in BOOLEAN
  /\ \A w \in Workers : proc[w] \in {"unforked", "alive", "exited"}
  /\ \A l \in LoadIds : loads[l] \in {"idle", "starting", "loading", "returned", "resolved",
                                      "rejected"}
  /\ \A c \in Callers : calls[c].st \in {"none", "pending", "resolved", "rejected"}
  /\ batch.pc \in {"idle", "awaiting", "done"}
  /\ worker # 0 => proc[worker] = "alive"

\* --------------------------------------------------------------- helpers
Range(q) == {q[i] : i \in DOMAIN q}

\* the listener of the pending call of caller c
Listener(c) == DetectL(c, calls[c].photo, calls[c].rid)

\* photos whose loop body detectFacesInPhotos has entered
Attempted == IF batch.pc = "awaiting" THEN batch.idx ELSE batch.idx - 1

\* position of photo p in the list of the batch
Pos(p) == CHOOSE i \in DOMAIN batch.photos : batch.photos[i] = p

\* ------------------------------------------------------------------ claims

\* C1: a detectFacesInPhoto call that is in flight when its worker process
\* exits is eventually rejected.  So as long as such a call is pending,
\* something that can settle it must be left: its 60 s timer, or a message
\* of that worker that is still to be dispatched.
C1_CrashedCallCanStillSettle ==
  \A c \in Callers :
    (calls[c].st = "pending" /\ proc[calls[c].w] = "exited")
      => (calls[c].timer \/ chan[calls[c].w] # <<>>)

\* C2: a call for photo P is resolved only by a detect-faces-response whose
\* photoId is P's, and as long as the call is pending its listener stays
\* registered on the ChildProcess it was sent to (a response with another
\* photoId removes nothing).
C2_ResolvedOnlyByOwnPhotoId ==
  \A c \in Callers :
    /\ settled[c].ok =>
         (settled[c].byType = "detect-faces-response" /\ settled[c].byPhoto = settled[c].photo)
    /\ (calls[c].st = "pending" /\ proc[calls[c].w] = "alive")
         => Listener(c) \in Range(listeners[calls[c].w])

\* C2 witness: a response with another photoId reached the handler of a
\* call, the call stayed pending and was later resolved by its own response
C2_Witness ==
  \E c \in Callers :
    /\ calls[c].st = "resolved" /\ calls[c].seen
    /\ settled[c].rid = calls[c].rid /\ settled[c].by = calls[c].rid

\* C3: a call is rejected with a worker-reported error only when the worker
\* produced that error while handling the call's own request.
C3_ErrorIsOfOwnRequest ==
  \A c \in Callers :
    settled[c].err = "worker" => (settled[c].of = "detect-faces" /\ settled[c].by = settled[c].rid)

\* C4: a call is never resolved by the response the worker produced for the
\* request of an earlier call that has timed out, a call for the same photo
\* id included.
C4_NotResolvedByExpiredRequest ==
  \A c \in Callers :
    settled[c].ok => settled[c].by \notin settled[c].old

\* C5: when the 60 s timer of a call fires while the worker the request went
\* to is still the live worker, the call is rejected with a timeout error
\* and its listener is removed; for a call of detectFacesInPhotos the error
\* is recorded for that photo and the loop goes on to the next photo
\* (whose stored faces it deletes) or, after the last photo, returns.
C5_TimeoutStep(c) ==
  LET p == calls[c].photo
      i == batch.idx
  IN /\ settled'[c].rid = calls[c].rid
     /\ ~settled'[c].ok /\ settled'[c].err = "timeout"
     /\ DetectL(c, p, calls[c].rid) \notin Range(listeners'[calls[c].w])
     /\ c = "batch" =>
          /\ Len(batch'.errors) > Len(batch.errors)
          /\ batch'.errors[Len(batch.errors) + 1] = [photo |-> p, err |-> "timeout"]
          /\ batch'.idx > i
          /\ IF i = Len(batch.photos) THEN batch'.pc = "done"
             ELSE \A f \in faces' : f.photoId # batch.photos[i + 1]

C5_TimeoutRejectsAndBatchProceeds ==
  [][\A c \in Callers : \A d \in BOOLEAN :
       (DetectTimeout(c, d) /\ worker # 0 /\ worker = calls[c].w) => C5_TimeoutStep(c)]_vars

\* C5 witness: the first photo of a batch of two timed out on a live worker
\* and the request for the second photo is in flight on the same worker
C5_Witness ==
  /\ batch.pc = "awaiting" /\ batch.idx = 2
  /\ batch.errors = <<[photo |-> batch.photos[1], err |-> "timeout"]>>
  /\ <<"batch", batch.runs, 1>> \in settled["batch"].expired
  /\ worker # 0 /\ calls["batch"].w = worker /\ proc[2] = "unforked"

\* C6: after the worker process has exited, a loadModels call that finds no
\* worker starts a new one.
C6_LoadModelsRestartsWorker ==
  [][\A l \in LoadIds : (LoadModelsCall(l) /\ worker = 0) => worker' # 0]_vars

\* C7: a loadModels call made while the models-loaded flag is true returns
\* at once: it sends nothing to a worker, forks no worker, installs no
\* listener and changes nothing else.
C7_LoadModelsIdempotent ==
  [][\A l \in LoadIds :
       (LoadModelsCall(l) /\ modelsLoaded) =>
          /\ loads'[l] = "returned"
          /\ UNCHANGED <<worker, modelsLoaded, proc, wModels, wReqs, chan, listeners,
                         calls, batch, faces, nextFaceId, settled, directCalls, cl, people, photos, ui, ex>>]_vars

\* C7 witness: a loadModels call has returned at its early return while a
\* worker with loaded models is running
C7_Witness ==
  \E l \in LoadIds : loads[l] = "returned" /\ worker # 0 /\ modelsLoaded /\ wModels[worker]

\* C8: a detectFacesInPhotos call made while the worker is not started or
\* the models are not loaded deletes and changes no stored face (the
\* database file being writable).
C8_NotReadyTouchesNoFaces ==
  [][\A ph \in PhotoLists :
       (BatchStart(ph, TRUE) /\ (worker = 0 \/ ~modelsLoaded)) => faces' = faces]_vars

\* C9: once the worker has exited while photo k of a batch was in flight,
\* no photo after k is attempted by that batch.
C9_NothingAttemptedAfterCrash ==
  batch.crashedAt # 0 => Attempted <= batch.crashedAt

\* C10: every failure of one photo adds one error entry for that photo and
\* the loop goes on: the entries name distinct photos in list order, each
\* photo before the loop position was counted, a rejected detection of the
\* running batch has its entry, and the call returns only after the last
\* photo.  A call during which every save fails returns one entry for every
\* photo of the list.
C10_ErrorsInv ==
  /\ batch.photosProcessed = batch.idx - 1
  /\ batch.pc = "done" => batch.idx = Len(batch.photos) + 1
  /\ batch.pc = "awaiting" => batch.idx <= Len(batch.photos)
  /\ \A i \in DOMAIN batch.errors :
       /\ batch.errors[i].photo \in Range(batch.photos)
       /\ Pos(batch.errors[i].photo) < batch.idx
       /\ \A j \in DOMAIN batch.errors :
            i < j => Pos(batch.errors[i].photo) < Pos(batch.errors[j].photo)
  /\ LET t == settled["batch"]
     IN (t.rid # <<>> /\ t.rid[2] = batch.runs /\ ~t.ok)
          => [photo |-> t.photo, err |-> t.err] \in Range(batch.errors)

C10_FailureDoesNotAbort ==
  /\ []C10_ErrorsInv
  /\ [][\A ph \in PhotoLists :
          BatchStart(ph, FALSE) =>
            /\ batch'.pc = "done"
            /\ batch'.errors = [i \in 1..Len(ph) |-> [photo |-> ph[i], err |-> "db"]]]_vars

\* C10 witness: of a list of two photos the first failed and the second was
\* processed and stored, and the call returned
C10_Witness ==
  /\ batch.pc = "done" /\ Len(batch.photos) = 2
  /\ Len(batch.errors) = 1 /\ batch.errors[1].photo = batch.photos[1]
  /\ batch.totalFaces = 1
  /\ \E f \in faces : f.photoId = batch.photos[2] /\ f.src = <<"batch", batch.runs, 2>>

\* C11: the photosProcessed of a returned detectFacesInPhotos call counts
\* the photos whose detection succeeded: the photos of the list less those
\* that ended in the errors list.
C11_ProcessedCountsSuccesses ==
  batch.pc = "done" => batch.photosProcessed = Len(batch.photos) - Len(batch.errors)

\* C12: the faces stored for a photo that the running or returned
\* detectFacesInPhotos call has processed are those this call inserted; the
\* photo being processed has no stored face while its detection is awaited;
\* and a step of a call adds faces only for the photo it is processing and
\* removes faces only of photos of its list.  So after any sequence of
\* calls the faces of a photo are those of the last call that processed it.
C12_FacesInv ==
  /\ \A i \in DOMAIN batch.photos : \A f \in faces :
       (i < batch.idx /\ f.photoId = batch.photos[i]) => f.run = batch.runs
  /\ batch.pc = "awaiting" => \A f \in faces : f.photoId # batch.photos[batch.idx]

C12_NoAccumulation ==
  /\ []C12_FacesInv
  /\ [][/\ \A f \in faces' \ faces :
             f.run = batch'.runs /\ f.photoId \in Range(batch'.photos)
        /\ \A f \in faces \ faces' : f.photoId \in Range(batch'.photos)]_vars

\* C12 witness: two calls for the same single photo have returned, each
\* inserted a face, and only the face of the second call is stored for it
C12_Witness ==
  /\ batch.pc = "done" /\ batch.runs = 2 /\ Len(batch.photos) = 1
  /\ nextFaceId = NumPhotos + 3
  /\ {f.id : f \in {g \in faces : g.photoId = batch.photos[1]}} = {NumPhotos + 2}
  /\ \A f \in faces : f.id # NumPhotos + 1

\* C13: the photos are attempted in list order, one at a time: the k-th
\* per-photo progress event names the k-th photo, and a detect request of
\* the batch is in flight only for the photo at the loop position.  Over
\* the progress events of a batch processed and percentage never decrease,
\* processed never exceeds total, and a returned call's last event is the
\* only one of phase 'complete' and has percentage 100.
C13_OrderAndProgress ==
  LET ev == batch.progress
  IN /\ batch.pc # "idle" => (Len(ev) >= 1 /\ ev[1] = StartEvent(batch.photos))
     /\ \A k \in DOMAIN ev :
          /\ ev[k].processed <= ev[k].total
          /\ ev[k].total = Len(batch.photos)
          /\ k > 1 => /\ ev[k].processed >= ev[k - 1].processed
                      /\ ev[k].percentage >= ev[k - 1].percentage
          /\ (k > 1 /\ ev[k].phase = "detecting") =>
               (k - 1 \in DOMAIN batch.photos /\ ev[k].file = batch.photos[k - 1])
          /\ ev[k].phase = "complete" => (k = Len(ev) /\ ev[k].percentage = 100)
     /\ batch.pc = "awaiting" =>
          /\ Len(ev) = batch.idx + 1
          /\ calls["batch"].st = "pending"
          /\ calls["batch"].photo = batch.photos[batch.idx]
          /\ calls["batch"].rid = <<"batch", batch.runs, batch.idx>>
     /\ batch.pc = "done" =>
          /\ Len(ev) = Len(batch.photos) + 2
          /\ ev[Len(ev)].phase = "complete"
          /\ calls["batch"].st # "pending"

\* C13 witness: a call for two photos has returned, the first photo failed
\* and the second succeeded, and the four progress events were reported
C13_Witness ==
  /\ batch.pc = "done" /\ Len(batch.photos) = 2 /\ Len(batch.progress) = 4
  /\ Len(batch.errors) = 1 /\ batch.totalFaces = 1
  /\ batch.progress[3].percentage = 50

\* the results of clusterFaces in the state, each with its input list
ClusterRuns ==
  (IF cl.pc \in {"done", "compared"} THEN {[input |-> cl.allFaces, result |-> cl.result]}
   ELSE {})
  \cup (IF cl.pc = "compared" THEN {[input |-> cl.reordered, result |-> cl.resultReordered]}
        ELSE {})

\* the places of result R that hold face id i
Places(R, i) == {<<k, j>> \in (DOMAIN R) \X (1..(MaxClusterFaces + 1)) :
                   j \in DOMAIN R[k].faceIds /\ R[k].faceIds[j] = i}

\* the member sets of the clusters of result R
Partition(R) == {Range(R[k].faceIds) : k \in DOMAIN R}

\* the face of list q with id i
FaceOf(q, i) == q[CHOOSE n \in DOMAIN q : q[n].id = i]

\* C14: for every face list and every threshold each input face id appears
\* in exactly one place of the result of clusterFaces.
C14_ClustersPartitionInput ==
  \A r \in ClusterRuns : \A n \in DOMAIN r.input :
    Cardinality(Places(r.result, r.input[n].id)) = 1

\* C15: for a threshold > 0 and three faces in any order, two with the same
\* descriptor and the third farther than the threshold from them, the result
\* has exactly two clusters: the two identical faces, and the third alone.
C15_TwoIdenticalOneFar ==
  \A r \in ClusterRuns : \A a, b, c \in DOMAIN r.input :
    ( /\ Len(r.input) = 3 /\ {a, b, c} = 1..3
      /\ cl.distanceThreshold > 0
      /\ r.input[a].embedding = r.input[b].embedding
      /\ calculateDistance(r.input[a].embedding, r.input[c].embedding)
           > cl.distanceThreshold * cl.distanceThreshold )
    => /\ Len(r.result) = 2
       /\ Partition(r.result) = {{r.input[a].id, r.input[b].id}, {r.input[c].id}}

\* C15 witness: such a list was clustered in two different orders
C15_Witness ==
  /\ cl.pc = "compared" /\ cl.distanceThreshold > 0 /\ cl.reordered # cl.allFaces
  /\ Len(cl.allFaces) = 3
  /\ cl.allFaces[1].embedding = cl.allFaces[3].embedding
  /\ calculateDistance(cl.allFaces[1].embedding, cl.allFaces[2].embedding)
       > cl.distanceThreshold * cl.distanceThreshold
  /\ Len(cl.result) = 2 /\ Len(cl.resultReordered) = 2

\* C16: clustering is greedy in input order: a member of a cluster is
\* within the threshold of the cluster's first face and of the first face of
\* no earlier cluster, so a face within the threshold of two seeds goes to
\* the one processed first and the partition depends on the input order.
C16_FirstSeedTakesFace ==
  \A r \in ClusterRuns : \A k \in DOMAIN r.result : \A j \in DOMAIN r.result[k].faceIds :
    LET f == FaceOf(r.input, r.result[k].faceIds[j])
        seed(n) == FaceOf(r.input, r.result[n].faceIds[1])
    IN /\ Below(calculateDistance(seed(k).embedding, f.embedding), cl.distanceThreshold)
       /\ \A n \in 1..(k - 1) :
            ~Below(calculateDistance(seed(n).embedding, f.embedding), cl.distanceThreshold)

\* C16 witness: the same faces in two orders gave two different partitions,
\* and a face within the threshold of the seeds of both orders changed cluster
C16_Witness ==
  /\ cl.pc = "compared"
  /\ Partition(cl.result) # Partition(cl.resultReordered)
  /\ \E f \in Range(cl.allFaces) :
       \E k \in DOMAIN cl.result : \E n \in DOMAIN cl.resultReordered :
         /\ f.id \in Range(cl.result[k].faceIds)
         /\ f.id \in Range(cl.resultReordered[n].faceIds)
         /\ f.id # cl.result[k].faceIds[1]
         /\ f.id # cl.resultReordered[n].faceIds[1]
         /\ cl.result[k].faceIds[1] # cl.resultReordered[n].faceIds[1]

\* ------------------------------------------------------------- people store
MemberFaces == {f \in faces : f.id \in Range(ui.label.faces)}

\* C17: when the label operation of a cluster has ended, either every member
\* face has personId equal to the new person, or no member face was
\* reassigned and the caller was shown an error: a half-labeled cluster is
\* never left behind without an error.
C17_LabelAllOrNothing ==
  ui.label.pc = "ended" =>
    \/ /\ ui.label.person # 0
       /\ \A f \in MemberFaces : f.personId = ui.label.person
    \/ /\ ui.label.error # ""
       /\ MemberFaces \subseteq ui.label.before

\* C18: a deletePerson(id) that returns leaves no row of id in
\* getAllPeople, sets personId to null on every face that pointed at id,
\* and keeps every other face as it was: no face is deleted and no other
\* column of a face changes.
C18_DeletePerson ==
  [][\A id \in 1..MaxPeople :
       DeletePerson(id, TRUE, TRUE) =>
         /\ ui'.last.ok
         /\ id \notin {r.id : r \in getAllPeople(Store(TRUE))'}
         /\ faces' = {IF f.personId = id THEN [f EXCEPT !.personId = 0] ELSE f : f \in faces}
         /\ {f.id : f \in faces'} = {f.id : f \in faces}
         /\ Cardinality(faces') = Cardinality(faces)]_vars

\* C18 witness: a person with labeled faces was deleted while a face of
\* another person is stored
C18_Witness ==
  /\ ui.last.op = "delete-person"
  /\ ui.last.ok
  /\ ui.last.n > 0
  /\ \E f \in faces : f.personId # 0 /\ f.personId # ui.last.id
  /\ Cardinality({f \in faces : f.personId = 0}) >= ui.last.n

\* the non-null personIds of the faces of photo p
PersonsOn(p) == {f.personId : f \in {g \in faces : g.photoId = p /\ g.personId # 0}}

\* C19: in mode 'only', getPhotosByPeople returns no photo that has a face
\* whose non-null personId is outside personIds.
C19_OnlyExcludesOthers ==
  (ui.last.op = "get-photos-by-people" /\ ui.last.mode = "only") =>
    \A p \in Range(ui.last.result) : PersonsOn(p) \subseteq Range(ui.last.personIds)

\* C20: in mode 'only', getPhotosByPeople returns exactly the non-hidden
\* photos with at least one face of a listed person and no face of a person
\* outside the list; faces with personId null do not count and the photo
\* need not show every listed person.
C20_OnlyIff ==
  (ui.last.op = "get-photos-by-people" /\ ui.last.mode = "only") =>
    Range(ui.last.result) =
      {p.id : p \in {q \in photos : /\ ~q.isHidden
                                     /\ PersonsOn(q.id) # {}
                                     /\ PersonsOn(q.id) \subseteq Range(ui.last.personIds)}}

\* C21: in mode 'any', getPhotosByPeople returns exactly the non-hidden
\* photos that have at least one face whose personId is in personIds, each
\* of them once.
C21_AnyMode ==
  (ui.last.op = "get-photos-by-people" /\ ui.last.mode = "any") =>
    /\ Range(ui.last.result) =
         {p.id : p \in {q \in photos : /\ ~q.isHidden
                                        /\ PersonsOn(q.id) \cap Range(ui.last.personIds) # {}}}
    /\ \A i, j \in DOMAIN ui.last.result :
         ui.last.result[i] = ui.last.result[j] => i = j

\* C21 witness: a query in mode 'any' returned a photo with two faces of
\* listed persons and left out a hidden photo with a face of a listed person
C21_Witness ==
  /\ ui.last.op = "get-photos-by-people"
  /\ ui.last.mode = "any"
  /\ \E p \in Range(ui.last.result) :
       Cardinality({f \in faces : f.photoId = p /\ f.personId \in Range(ui.last.personIds)}) > 1
  /\ \E q \in photos : /\ q.isHidden
                        /\ PersonsOn(q.id) \cap Range(ui.last.personIds) # {}

\* C22: every face's personId is null or the id of an existing person, in
\* every state reachable by create-person, assign-face-to-person and
\* delete-person calls.
C22_PersonIdReferencesPerson ==
  \A f \in faces : f.personId = 0 \/ \E r \in people.rows : r.id = f.personId

\* C24: the photoCount of every person of getAllPeople, and of the same
\* person from getPersonById, is the number of distinct photoIds among the
\* faces of that person, 0 when there are none.
C24_PhotoCountDistinct ==
  \A r \in getAllPeople(Store(TRUE)) :
    /\ r.photoCount = Cardinality({p \in Photos :
                         \E f \in faces : f.photoId = p /\ f.personId = r.id})
    /\ getPersonById(Store(TRUE), r.id) = r

\* C24 witness: a person with two faces on one photo, counted once, and a
\* person without faces, counted 0
C24_Witness ==
  /\ \E r \in getAllPeople(Store(TRUE)) :
       /\ r.photoCount = 1
       /\ Cardinality({f \in faces : f.personId = r.id}) = 2
  /\ \E r \in getAllPeople(Store(TRUE)) :
       /\ r.photoCount = 0
       /\ \A f \in faces : f.personId # r.id

\* C23: every face's photoId references a row of the photos table: when a
\* rescan removes the photos, their faces are removed too.
C23_PhotoIdReferencesPhoto ==
  \A f \in faces : \E p \in photos : p.id = f.photoId

\* ---------------------------------------------------------- worker manager
\* C25: a message that is neither a load-models-response nor an error never
\* consumes the listener of a pending loadModels call: as long as the call
\* is pending and its worker lives, its listener stays registered, so that
\* the load-models-response delivered later resolves the call.
C25_PendingLoadKeepsListener ==
  [][\A l \in LoadIds : \A w \in Workers :
       (/\ loads[l] = "loading" /\ LoadL(l) \in Range(listeners[w])
        /\ loads'[l] = "loading" /\ proc'[w] = "alive")
       => LoadL(l) \in Range(listeners'[w])]_vars

\* C26: at most one forked worker process is alive at any time, also when
\* loadModels calls overlap; and the worker whose exit clears the handle
\* and the models-loaded flag is the worker the manager uses.
C26_OneLiveWorker ==
  /\ [](Cardinality({w \in Workers : proc[w] = "alive"}) <= 1)
  /\ [][\A w \in Workers : \A keep \in BOOLEAN : WorkerExit(w, keep) => worker = w]_vars

\* C26 witness: two loadModels calls overlap, the first still waiting for
\* 'ready' of the worker it forked, the second already past the handle test;
\* one worker is alive
C26_Witness ==
  /\ loads[1] = "starting"
  /\ loads[2] = "loading"
  /\ worker = 1
  /\ Cardinality({w \in Workers : proc[w] = "alive"}) = 1

\* C27: a cluster of the People view is shown as unlabeled (personId null)
\* only if none of its member faces has a personId, and a cluster whose
\* members all carry one personId is shown with that personId.
C27_ClusterPersonId ==
  \A c \in Clusters :
    LET members == {f \in faces : f.id \in Range(c)}
    IN /\ clusterPersonId(c) = 0 => \A f \in members : f.personId = 0
       /\ \A q \in 1..MaxPeople :
            (\A f \in members : f.personId = q) => clusterPersonId(c) = q

\* ------------------------------------------------------------- clustering
\* the position of face id i in list q
PlaceIn(q, i) == CHOOSE n \in DOMAIN q : q[n].id = i

\* C28: in every result of clusterFaces with a threshold > 0, the first id
\* of each cluster is the member that comes earliest in the input list, and
\* every other member is at distance strictly below the threshold from it.
C28_SampleFaceIsEarliest ==
  \A r \in ClusterRuns :
    cl.distanceThreshold > 0 =>
      \A k \in DOMAIN r.result : \A j \in DOMAIN r.result[k].faceIds :
        LET first == r.result[k].faceIds[1]
            member == r.result[k].faceIds[j]
        IN /\ PlaceIn(r.input, first) <= PlaceIn(r.input, member)
           /\ j # 1 => Below(calculateDistance(FaceOf(r.input, first).embedding,
                                                FaceOf(r.input, member).embedding),
                              cl.distanceThreshold)

\* C28 witness: a cluster of three faces, one of them with the descriptor of
\* the first, from an input whose order is not the order of the ids
C28_Witness ==
  /\ cl.pc = "compared"
  /\ cl.distanceThreshold > 0
  /\ \E k \in DOMAIN cl.resultReordered :
       LET ids == cl.resultReordered[k].faceIds
       IN /\ Len(ids) = 3
          /\ ids[1] > ids[2]
          /\ FaceOf(cl.reordered, ids[1]).embedding = FaceOf(cl.reordered, ids[2]).embedding
          /\ FaceOf(cl.reordered, ids[1]).embedding # FaceOf(cl.reordered, ids[3]).embedding

\* ------------------------------------------------------ people store, again
\* C29: every person's representativeFaceId is null or the id of a stored
\* face, in every state reachable by create-person, update-person and
\* detection runs.
C29_RepresentativeFaceExists ==
  \A r \in people.rows :
    r.representativeFaceId = 0 \/ \E f \in faces : f.id = r.representativeFaceId

\* ----------------------------------------------------------------- export
\* C30: an export gives every exported week its own folder: no two weeks
\* that differ in (year, weekNumber) get the same folder name; and with the
\* S01 pattern the folders carry the names S01, S02, ... of the preview.
C30_OneFolderPerWeek ==
  (ex.pc = "done" /\ ex.error = "") =>
    /\ \A i, j \in DOMAIN ex.folders :
         ex.folders[i].folderName = ex.folders[j].folderName => i = j
    /\ ex.config.namingPattern = "S01" =>
         /\ DOMAIN ex.folders = DOMAIN ex.preview
         /\ \A i \in DOMAIN ex.folders :
              ex.folders[i].folderName = ex.preview[i].folderName
====
